---- MODULE Spec2Model ----
(***************************************************************************)
(* Model of the document analyzer: the text chunker (splitTextIntoChunks)  *)
(* and the size-aware orchestration of model calls (analyzeDocument) of    *)
(* the Gemini service.                                                     *)
(*                                                                         *)
(* Texts are sequences of one-character strings.  Indices in the           *)
(* definitions below are the 0-based indices of the TypeScript source; the *)
(* conversion to the 1-based sequences of TLA+ happens only in CharAt and  *)
(* Substring.                                                              *)
(***************************************************************************)
EXTENDS Integers, Sequences, FiniteSets, TLC

VARIABLES
    \* ---- splitTextIntoChunks(text, limit): one loop iteration per step
    text,        \* parameter text
    limit,       \* parameter limit
    startIndex,  \* local startIndex
    chunks,      \* local chunks
    cuts,        \* history: one record per chunk pushed (where it began, where
                 \* it was cut, and how)
    cpc,         \* "loop" while the while-loop runs, "returned" after return
    \* ---- analyzeDocument(prompt, document): one step per suspension point
    document,     \* parameter document
    pc,           \* where the run is suspended, or how it ended
    docChunks,    \* local chunks (map-reduce path)
    splitCalls,   \* history: how often the run called splitTextIntoChunks
    mapState,     \* per chunk: the state of its promise in summaryPromises
    mapText,      \* per chunk: what its promise resolved to
    settled,      \* history: chunk indices in the order their calls settled
    calls,        \* history: every ai.models.generateContent call issued
    responseText, \* local responseText
    result,       \* the value analyzeDocument resolved to
    error,        \* the message of the Error analyzeDocument rejected with
    caught,       \* history: the value the catch block caught, and whether a
                  \* model call or the handling of its response threw it
    \* ---- FileUpload component state
    isProcessing,
    passwordRequiredFile,
    password,
    passwordError,
    extracting,   \* the extractTextFromPdf / extractTextFromXlsx calls in flight
    attempts,     \* history: passwords submitted for the file now asking for one
    \* ---- App component state
    file,
    fileDataUrl,
    extractedText,
    analysis,
    isLoading,
    appError,     \* the state named error in App
    reading,      \* the files whose FileReader.readAsDataURL is in flight
    analyzing,    \* the analyzeDocument calls of handleAnalyze in flight
    \* ---- extractTextFromPdf / extractTextFromXlsx: one step per page, one
    \* step for the sheets
    pdf,          \* local pdf: the opened document, one entry per page
    workbook,     \* local workbook
    pageNumber,   \* loop variable i of extractTextFromPdf
    fullText,     \* local fullText
    xpc           \* "pdf" or "xlsx" while the function runs, then "pdfReturned"
                  \* or "xlsxReturned"

chunkVars == <<text, limit, startIndex, chunks, cuts, cpc>>

runVars == <<document, pc, docChunks, splitCalls, mapState, mapText, settled, calls,
             responseText, result, error, caught>>

uploadVars == <<isProcessing, passwordRequiredFile, password, passwordError,
                extracting, attempts>>

appVars == <<file, fileDataUrl, extractedText, analysis, isLoading, appError,
             reading, analyzing>>

uiVars == <<uploadVars, appVars>>

extractVars == <<pdf, workbook, pageNumber, fullText, xpc>>

vars == <<chunkVars, runVars, uiVars, extractVars>>

-----------------------------------------------------------------------------
(* Bounds of the model                                                     *)

MaxLen == 5      \* longest text handed to the chunker
MaxLimit == 3    \* largest chunk limit handed to the chunker
MaxDocLen == 5   \* longest extracted text handed to analyzeDocument
MaxData == 3     \* longest attachment handed to analyzeDocument
MaxAttempts == 3 \* most passwords submitted for one file
MaxPages == 2    \* most pages of a PDF
MaxItems == 2    \* most text items of a page
MaxSheets == 2   \* most sheets of a workbook
MaxCsv == 2      \* longest serialized content of a sheet, in lines

-----------------------------------------------------------------------------
(* Strings                                                                 *)

NL == "\n"
Chars == {"a", "b", NL}

Texts(n) == UNION {[1..k -> Chars] : k \in 0..n}

Max(S) == CHOOSE x \in S : \A y \in S : y <= x

\* text[i], 0-based
CharAt(t, i) == t[i + 1]

\* String.prototype.substring(a, b) for 0 <= a <= b; b is clamped to the length
Substring(t, a, b) == SubSeq(t, a + 1, IF b > Len(t) THEN Len(t) ELSE b)

\* String.prototype.lastIndexOf(newline, fromIndex): the largest index <= fromIndex
\* holding a newline, -1 when there is none
lastIndexOfNewline(t, fromIndex) ==
    LET hits == {i \in 0..(Len(t) - 1) : i <= fromIndex /\ CharAt(t, i) = NL}
    IN  IF hits = {} THEN -1 ELSE Max(hits)

\* Array.prototype.join(sep) on a sequence of texts
RECURSIVE Join(_, _)
Join(parts, sep) ==
    IF Len(parts) = 0 THEN <<>>
    ELSE IF Len(parts) = 1 THEN parts[1]
    ELSE parts[1] \o sep \o Join(Tail(parts), sep)

-----------------------------------------------------------------------------
(* splitTextIntoChunks                                                     *)

\* mutant: lastIndexOf called without the fromIndex argument
SplitIndex_noFromIndex(t, start, lim) ==
    LET endIndex == start + lim
        splitIndex == lastIndexOfNewline(t, Len(t) - 1)
    IN  IF splitIndex = -1 \/ splitIndex < start THEN endIndex ELSE splitIndex

\* lines 34-39: where the chunk beginning at startIndex is cut
SplitIndex(t, start, lim) ==
    LET endIndex == start + lim
        splitIndex == lastIndexOfNewline(t, endIndex)
    IN  IF splitIndex = -1 \/ splitIndex < start THEN endIndex ELSE splitIndex

\* lines 34-37: the cut at startIndex is a hard cut (no newline to cut at)
IsHardCut(t, start, lim) ==
    LET splitIndex == lastIndexOfNewline(t, start + lim)
    IN  splitIndex = -1 \/ splitIndex < start

\* mutant: the chunk keeps the character it was cut at
CutChunk_inclusive(t, start, splitIndex) == Substring(t, start, splitIndex + 1)

\* line 41: the chunk pushed for a cut
CutChunk(t, start, splitIndex) == Substring(t, start, splitIndex)

\* mutant: break without pushing the rest of the text
FinalChunk_notPushed(t, start) == <<>>

\* line 29: the chunk pushed when the rest of the text fits
FinalChunk(t, start) == <<Substring(t, start, Len(t))>>

\* mutant: the next chunk begins at the cut itself
NextStart_atCut(splitIndex) == splitIndex

\* line 42: where the next chunk begins
NextStart(splitIndex) == splitIndex + 1

\* lines 26-43: one iteration of the while loop on the loop state st
ChunkIteration(t, lim, st) ==
    IF ~(st.startIndex < Len(t))
    THEN [st EXCEPT !.done = TRUE]
    ELSE LET endIndex == st.startIndex + lim IN
         IF endIndex >= Len(t)
         THEN [st EXCEPT
                 !.chunks = st.chunks \o FinalChunk(t, st.startIndex),
                 !.cuts = Append(st.cuts, [from |-> st.startIndex,
                                           to |-> Len(t), kind |-> "final"]),
                 !.done = TRUE]
         ELSE LET splitIndex == SplitIndex(t, st.startIndex, lim) IN
              [st EXCEPT
                 !.chunks = Append(st.chunks, CutChunk(t, st.startIndex, splitIndex)),
                 !.cuts = Append(st.cuts,
                     [from |-> st.startIndex, to |-> splitIndex,
                      kind |-> IF IsHardCut(t, st.startIndex, lim)
                               THEN "hard" ELSE "newline"]),
                 !.startIndex = NextStart(splitIndex)]

\* lines 22-25: the state at the loop entry; an empty text returns at once
ChunkEntry(t) ==
    [startIndex |-> 0, chunks |-> <<>>, cuts |-> <<>>, done |-> Len(t) = 0]

RECURSIVE ChunkLoop(_, _, _)
ChunkLoop(t, lim, st) ==
    IF st.done THEN st ELSE ChunkLoop(t, lim, ChunkIteration(t, lim, st))

\* lines 21-46: the function's result
splitTextIntoChunks(t, lim) == ChunkLoop(t, lim, ChunkEntry(t)).chunks

-----------------------------------------------------------------------------
(* analyzeDocument: inputs                                                 *)

\* line 13.  The source's ceiling is 800000 characters; the model scales it
\* down so that texts on both sides of it can be enumerated.
CHARACTER_LIMIT == 2

None == "none"

DocChars == {"a", NL}
DocTexts == UNION {[1..k -> DocChars] : k \in 0..MaxDocLen}
Attachments == UNION {[1..k -> {"x"}] : k \in 1..MaxData}
MimeTypes == {"image/png", "application/octet-stream"}

\* line 51: the two shapes of the parameter document
TextDocument(content) ==
    [type |-> "text", content |-> content, base64Data |-> <<>>, mimeType |-> None]
FileDocument(data, mimeType) ==
    [type |-> "file", content |-> <<>>, base64Data |-> data, mimeType |-> mimeType]

NoDocument == [type |-> None, content |-> <<>>, base64Data |-> <<>>, mimeType |-> None]

-----------------------------------------------------------------------------
(* analyzeDocument: the requests                                           *)

\* A request's contents are a sequence of parts: the fixed texts of the source
\* (the prompt, the headers and instructions) by name, the variable texts by
\* value.
Fixed(tag) == [tag |-> tag, body |-> <<>>]
Given(tag, body) == [tag |-> tag, body |-> body]

\* mutant: the attachment is left out of the request
ImageCall_promptOnly(d) ==
    [kind |-> "image", contents |-> <<Fixed("prompt")>>, mimeType |-> d.mimeType]

\* lines 58-71
ImageCall(d) ==
    [kind |-> "image",
     contents |-> <<Fixed("prompt"), Given("inlineData", d.base64Data)>>,
     mimeType |-> d.mimeType]

\* lines 104-108
SingleCall(d) ==
    [kind |-> "single",
     contents |-> <<Fixed("prompt"), Fixed("contentHeader"), Given("text", d.content)>>,
     mimeType |-> None]

\* lines 81, 84-87: the request of one chunk
MapCall(chunk) ==
    [kind |-> "map",
     contents |-> <<Fixed("mapPrompt"), Given("text", chunk)>>,
     mimeType |-> None]

\* mutant: empty chunks are filtered out before the calls are issued
MapCalls_skipEmpty(cs) ==
    LET kept == SelectSeq(cs, LAMBDA c : Len(c) > 0)
    IN  [i \in 1..Len(kept) |-> MapCall(kept[i])]

\* lines 83-88: chunks.map(...), one request per chunk, issued in chunk order
MapCalls(cs) == [i \in 1..Len(cs) |-> MapCall(cs[i])]

\* line 93: partialSummaries.join(divider), as parts
RECURSIVE JoinSummaries(_)
JoinSummaries(summaries) ==
    IF Len(summaries) = 0 THEN <<>>
    ELSE IF Len(summaries) = 1 THEN <<Given("summary", summaries[1])>>
    ELSE <<Given("summary", summaries[1]), Fixed("divider")>>
            \o JoinSummaries(Tail(summaries))

\* lines 95-100
ReduceCall(partialSummaries) ==
    [kind |-> "reduce",
     contents |-> <<Fixed("prompt"), Fixed("reduceInstruction")>>
                     \o JoinSummaries(partialSummaries),
     mimeType |-> None]

\* mutant: the ceiling test is >= instead of >
Strategy_atCeiling(d) ==
    IF d.type = "file" THEN "image"
    ELSE IF Len(d.content) >= CHARACTER_LIMIT THEN "mapReduce"
    ELSE "single"

\* lines 56, 74: the path a document takes
Strategy(d) ==
    IF d.type = "file" THEN "image"
    ELSE IF Len(d.content) > CHARACTER_LIMIT THEN "mapReduce"
    ELSE "single"

-----------------------------------------------------------------------------
(* analyzeDocument: the join of the map calls                              *)

\* mutant: Promise.race/any, settled by the first promise that resolves
PromiseAll_first(state) ==
    IF \E i \in DOMAIN state : state[i] = "rejected" THEN "rejected"
    ELSE IF \E i \in DOMAIN state : state[i] = "resolved" THEN "fulfilled"
    ELSE "pending"

\* mutant: Promise.allSettled, which never rejects
PromiseAll_allSettled(state) ==
    IF \E i \in DOMAIN state : state[i] = "pending" THEN "pending"
    ELSE "fulfilled"

\* line 90: Promise.all(summaryPromises) rejects with the first rejection and
\* is fulfilled once every promise has resolved
PromiseAll(state) ==
    IF \E i \in DOMAIN state : state[i] = "rejected" THEN "rejected"
    ELSE IF \A i \in DOMAIN state : state[i] = "resolved" THEN "fulfilled"
    ELSE "pending"

\* mutant: the summaries are collected as they arrive
PromiseAllValues_arrival(texts, order) ==
    [k \in 1..Len(order) |-> texts[order[k]]]

\* line 90: the value of Promise.all, the promises' values in the order of
\* summaryPromises whatever the order they settled in
PromiseAllValues(texts, order) == texts

-----------------------------------------------------------------------------
(* analyzeDocument: the responses and their validation                     *)

\* A response text is a sequence of tokens: a space, a newline, the fence
\* marker (three backquotes), the word json, and one token per JSON text or non-JSON text.
FENCE == "<fence>"
Whitespace == {" ", NL}

JsonBodies == {"J_full", "J_emptyArrays", "J_noSummary", "J_emptySummary",
               "J_findingsNotArray", "J_noCostAndRisk", "J_costsNotArray",
               "J_risksNotArray", "J_null", "J_number", "J_summaryNumber"}
Bodies == JsonBodies \cup {"not json"}

\* What JSON.parse makes of each JSON text: the type of the value and what the
\* property reads of lines 119-123 find
Property(b) ==
    LET full == [type |-> "object", summary |-> "text", criticalFindings |-> "array",
                 costAndRiskAnalysis |-> "object", costs |-> "array", risks |-> "array"]
        nothing == [type |-> "number", summary |-> "undefined",
                    criticalFindings |-> "undefined",
                    costAndRiskAnalysis |-> "undefined",
                    costs |-> "undefined", risks |-> "undefined"]
    IN  CASE b = "J_full" -> full
          [] b = "J_emptyArrays" ->
                [full EXCEPT !.criticalFindings = "emptyArray",
                             !.costs = "emptyArray", !.risks = "emptyArray"]
          [] b = "J_noSummary" -> [full EXCEPT !.summary = "undefined"]
          [] b = "J_emptySummary" -> [full EXCEPT !.summary = ""]
          [] b = "J_findingsNotArray" -> [full EXCEPT !.criticalFindings = "string"]
          [] b = "J_noCostAndRisk" ->
                [full EXCEPT !.costAndRiskAnalysis = "undefined",
                             !.costs = "undefined", !.risks = "undefined"]
          [] b = "J_costsNotArray" -> [full EXCEPT !.costs = "string"]
          [] b = "J_risksNotArray" -> [full EXCEPT !.risks = "undefined"]
          [] b = "J_null" -> [nothing EXCEPT !.type = "null"]
          [] b = "J_summaryNumber" -> [full EXCEPT !.summary = "number"]
          [] OTHER -> nothing

Wrappers == {
    <<<<>>, <<>>>>,
    <<<<FENCE, "json", NL>>, <<NL, FENCE>>>>,
    <<<<FENCE, NL>>, <<NL, FENCE>>>>,
    <<<<" ", FENCE, "json", NL>>, <<NL, FENCE, NL>>>> }

ResponseTexts == {w[1] \o <<b>> \o w[2] : w \in Wrappers, b \in Bodies}

\* String.prototype.trim
RECURSIVE TrimStart(_)
TrimStart(t) ==
    IF Len(t) > 0 /\ t[1] \in Whitespace THEN TrimStart(Tail(t)) ELSE t
RECURSIVE TrimEnd(_)
TrimEnd(t) ==
    IF Len(t) > 0 /\ t[Len(t)] \in Whitespace
    THEN TrimEnd(SubSeq(t, 1, Len(t) - 1)) ELSE t
Trim(t) == TrimEnd(TrimStart(t))

\* mutant: the opening fence is left in place
StripOpeningFence_kept(t) == t

\* line 115: the first replace, of an opening fence tagged json and the
\* newline after it, if any
StripOpeningFence(t) ==
    IF Len(t) >= 2 /\ t[1] = FENCE /\ t[2] = "json"
    THEN IF Len(t) >= 3 /\ t[3] = NL THEN SubSeq(t, 4, Len(t))
         ELSE SubSeq(t, 3, Len(t))
    ELSE t

\* line 115: the second replace, of a closing fence and the newline before
\* it, if any
StripClosingFence(t) ==
    IF Len(t) >= 1 /\ t[Len(t)] = FENCE
    THEN IF Len(t) >= 2 /\ t[Len(t) - 1] = NL THEN SubSeq(t, 1, Len(t) - 2)
         ELSE SubSeq(t, 1, Len(t) - 1)
    ELSE t

\* lines 114-115
CleanJsonString(t) == StripClosingFence(StripOpeningFence(Trim(t)))

\* line 116: JSON.parse accepts one JSON text with optional whitespace around
\* it and throws a SyntaxError on anything else
JsonParses(t) == Len(Trim(t)) = 1 /\ Trim(t)[1] \in JsonBodies
ParsedJson(t) == Trim(t)[1]

\* What is thrown inside the try block
NoMessage == "undefined"
SyntaxError ==
    [name |-> "SyntaxError", isObject |-> TRUE, apiMessage |-> NoMessage,
     message |-> "Unexpected token"]
TypeError ==
    [name |-> "TypeError", isObject |-> TRUE, apiMessage |-> NoMessage,
     message |-> "Cannot read properties of null"]
InvalidStructure ==
    [name |-> "Error", isObject |-> TRUE, apiMessage |-> NoMessage,
     message |-> "Invalid JSON structure received from API. Please try again."]

\* Stands for the rejection where no promise has rejected
NoRejection ==
    [name |-> "none", isObject |-> FALSE, apiMessage |-> NoMessage,
     message |-> NoMessage]

\* What a failing ai.models.generateContent call rejects with
ApiErrors == {
    [name |-> "Error", isObject |-> TRUE, apiMessage |-> NoMessage,
     message |-> "quota exceeded"],
    [name |-> "ApiError", isObject |-> TRUE,
     apiMessage |-> "The input token count exceeds the maximum",
     message |-> "got status: 400"],
    [name |-> "ApiError", isObject |-> TRUE, apiMessage |-> NoMessage,
     message |-> "The input token count (9) exceeds the maximum number of tokens allowed (8)"],
    [name |-> "SyntaxError", isObject |-> TRUE, apiMessage |-> NoMessage,
     message |-> "Unexpected token < in JSON"],
    [name |-> "object", isObject |-> TRUE, apiMessage |-> NoMessage,
     message |-> NoMessage],
    [name |-> "string", isObject |-> FALSE, apiMessage |-> NoMessage,
     message |-> NoMessage] }

\* mutant: the array checks also demand a non-empty array
Validate_nonEmptyArrays(t) ==
    LET clean == CleanJsonString(t) IN
    IF ~JsonParses(clean) THEN [ok |-> FALSE, value |-> None, thrown |-> SyntaxError]
    ELSE LET parsedJson == ParsedJson(clean)
             p == Property(parsedJson)
         IN  IF p.type = "null"
             THEN [ok |-> FALSE, value |-> None, thrown |-> TypeError]
             ELSE IF \/ p.summary \in {"undefined", ""}
                     \/ p.criticalFindings # "array"
                     \/ p.costAndRiskAnalysis = "undefined"
                     \/ p.costs # "array"
                     \/ p.risks # "array"
             THEN [ok |-> FALSE, value |-> None, thrown |-> InvalidStructure]
             ELSE [ok |-> TRUE, value |-> parsedJson, thrown |-> InvalidStructure]

\* lines 116-128: the outcome of parsing and validating a response text
Validate(t) ==
    LET clean == CleanJsonString(t) IN
    IF ~JsonParses(clean) THEN [ok |-> FALSE, value |-> None, thrown |-> SyntaxError]
    ELSE LET parsedJson == ParsedJson(clean)
             p == Property(parsedJson)
         IN  IF p.type = "null"
             THEN [ok |-> FALSE, value |-> None, thrown |-> TypeError]
             ELSE IF \/ p.summary \in {"undefined", ""}
                     \/ p.criticalFindings \notin {"array", "emptyArray"}
                     \/ p.costAndRiskAnalysis = "undefined"
                     \/ p.costs \notin {"array", "emptyArray"}
                     \/ p.risks \notin {"array", "emptyArray"}
             THEN [ok |-> FALSE, value |-> None, thrown |-> InvalidStructure]
             ELSE [ok |-> TRUE, value |-> parsedJson, thrown |-> InvalidStructure]

ParseFailedMessage == "Failed to parse the AI response. The model may have returned an invalid format. Please try again."
UnknownErrorMessage == "An unknown error occurred while communicating with the AI."
TooLargeMessage == "The document is too large to analyze. Its content exceeds the maximum allowed length for the AI model."

\* line 148: errorMessage.includes(...), true of the messages holding the
\* phrase token count exceeds
IncludesTokenCountExceeds(m) == m = "The input token count exceeds the maximum"

\* mutant: the catch block swallows what it caught
CatchMessage_swallowed(e) == None

\* lines 130-153: the message of the Error the catch block throws
CatchMessage(e) ==
    IF e.name = "SyntaxError" THEN ParseFailedMessage
    ELSE LET apiMessage == IF e.apiMessage # NoMessage THEN e.apiMessage ELSE e.message
             errorMessage == IF e.isObject /\ apiMessage # NoMessage
                             THEN apiMessage ELSE UnknownErrorMessage
         IN  IF IncludesTokenCountExceeds(errorMessage) THEN TooLargeMessage
             ELSE errorMessage

\* line 130: what the catch block caught; nothing while the run has not failed
Caught(e, stage) == [thrown |-> e, stage |-> stage]
NotCaught == Caught(NoRejection, None)

\* What response.text of a map call can be
Summaries == {<<>>, <<"s1">>, <<"s2">>}

-----------------------------------------------------------------------------
(* The upload component and the App: files, extraction, messages           *)

NoFile == "null"
Null == "null"

PDF == "application/pdf"
XLSX == "application/vnd.openxmlformats-officedocument.spreadsheetml.sheet"

\* The files the user can pick.  A file stands for its name, its media type
\* and its bytes.
Files == {"a.png", "b.png", "plain.pdf", "locked.pdf", "lockedCorrupt.pdf",
          "lockedUnsupported.pdf", "corrupt.pdf", "book.xlsx", "notes.txt"}

\* File.type
FileType(f) ==
    CASE f \in {"a.png", "b.png"} -> "image/png"
      [] f \in {"plain.pdf", "locked.pdf", "lockedCorrupt.pdf",
                "lockedUnsupported.pdf", "corrupt.pdf"} -> PDF
      [] f = "book.xlsx" -> XLSX
      [] OTHER -> "text/plain"

\* file.type.startsWith('image/')
IsImage(f) == FileType(f) = "image/png"

\* What the user can type into the password field; "open" opens locked.pdf
Passwords == {"", "open", "wrong"}

\* What pdf.js and SheetJS throw, by the three tests the handlers make of it:
\* error.name, whether the lower-cased message mentions password, whether
\* the message holds Invalid PDF structure
PasswordException ==
    [name |-> "PasswordException", mentionsPassword |-> TRUE, invalidStructure |-> FALSE]
InvalidPDFException ==
    [name |-> "InvalidPDFException", mentionsPassword |-> FALSE, invalidStructure |-> TRUE]
UnsupportedEncryption ==
    [name |-> "UnknownErrorException", mentionsPassword |-> FALSE, invalidStructure |-> FALSE]
NoException ==
    [name |-> "none", mentionsPassword |-> FALSE, invalidStructure |-> FALSE]

Extracted(f) == [ok |-> TRUE, text |-> f, thrown |-> NoException]
Failed(e) == [ok |-> FALSE, text |-> Null, thrown |-> e]

\* lines 314-330: extractTextFromPdf(file, providedPassword), by what the
\* file is.  The text extracted from a file is represented by the file.
extractTextFromPdf(f, providedPassword) ==
    CASE f = "plain.pdf" -> Extracted(f)
      [] f = "locked.pdf" ->
            IF providedPassword = "open" THEN Extracted(f) ELSE Failed(PasswordException)
      [] f = "lockedCorrupt.pdf" ->
            IF providedPassword = "" THEN Failed(PasswordException)
            ELSE Failed(InvalidPDFException)
      [] f = "lockedUnsupported.pdf" ->
            IF providedPassword = "" THEN Failed(PasswordException)
            ELSE Failed(UnsupportedEncryption)
      [] OTHER -> Failed(InvalidPDFException)

\* lines 332-352: extractTextFromXlsx(file)
extractTextFromXlsx(f) == Extracted(f)

\* lines 365-375: the extraction handleFileSelect awaits for a file
NeedsExtraction(f) == FileType(f) \in {PDF, XLSX}
ExtractionOf(f, providedPassword) ==
    IF FileType(f) = PDF THEN extractTextFromPdf(f, providedPassword)
    ELSE extractTextFromXlsx(f)

\* lines 378-379
IsPasswordError(e) == e.name = "PasswordException" \/ e.mentionsPassword

\* mutant: no password branch, every failure takes the fallback
AsksForPassword_never(f, e) == FALSE

\* line 381
AsksForPassword(f, e) == FileType(f) = PDF /\ IsPasswordError(e)

IncorrectPasswordMessage == "Incorrect password. Please try again."
UnlockFailedMessage == "Failed to unlock PDF. The file may be corrupted or use an unsupported encryption type."
NoContentMessage == "No content available for analysis. Please re-upload your file."
AnalysisFailedMessage == "analyzeDocument rejected"

\* mutant: every failure to unlock shows the generic message
UnlockErrorMessage_generic(e) == UnlockFailedMessage

\* lines 410-414
UnlockErrorMessage(e) ==
    IF e.name = "PasswordException" \/ e.invalidStructure
    THEN IncorrectPasswordMessage
    ELSE UnlockFailedMessage

\* mutant: the file asking for a password is not cleared
resetPasswordState_keepsFile(current) ==
    [passwordRequiredFile |-> current, password |-> "", passwordError |-> Null]

\* lines 308-312, given the current passwordRequiredFile
resetPasswordState(current) ==
    [passwordRequiredFile |-> NoFile, password |-> "", passwordError |-> Null]

NoAnalysis == [file |-> NoFile, kind |-> Null, of |-> Null, locked |-> FALSE]

\* The state of both components after mounting
UiIdle ==
    /\ isProcessing = FALSE
    /\ passwordRequiredFile = NoFile
    /\ password = ""
    /\ passwordError = Null
    /\ extracting = {}
    /\ attempts = 0
    /\ file = NoFile
    /\ fileDataUrl = Null
    /\ extractedText = Null
    /\ analysis = NoAnalysis
    /\ isLoading = FALSE
    /\ appError = Null
    /\ reading = {}
    /\ analyzing = {}

-----------------------------------------------------------------------------
(* extractTextFromPdf and extractTextFromXlsx: the text they build         *)

\* What item.str of a text item can be; the empty text also stands for an
\* item without str, which line 326 maps to the empty string
ItemStrs == {<<>>, <<"x">>, <<"y">>}

\* textContent.items of a page
PageItems == UNION {[1..k -> ItemStrs] : k \in 0..MaxItems}

\* The opened documents: pdf.numPages is the length, pdf.getPage(i) is pdf[i]
Pdfs == UNION {[1..n -> PageItems] : n \in 0..MaxPages}

\* line 326: textContent.items.map(...).join(' ')
PageText(items) == Join(items, <<" ">>)

\* line 327: fullText += pageText + '\n\n'
AppendPage(full, pageText) == full \o pageText \o <<NL, NL>>

\* A workbook text is a sequence of lines and newlines
SheetNamePool == {"S1", "S2", "S3"}

\* line 346: the line --- SHEET: sheetName ---
SheetHeader(sheetName) ==
    CASE sheetName = "S1" -> "--- SHEET: S1 ---"
      [] sheetName = "S2" -> "--- SHEET: S2 ---"
      [] sheetName = "S3" -> "--- SHEET: S3 ---"

\* XLSX.utils.sheet_to_csv(worksheet): rows of cells; a cell can hold any
\* text, the text of a sheet header included
CsvLines == {"r", "--- SHEET: S1 ---"}
Csvs == UNION {[1..k -> CsvLines] : k \in 0..MaxCsv}

\* workbook.SheetNames lists each sheet once, in the workbook's order
SheetNameLists ==
    {names \in UNION {[1..n -> SheetNamePool] : n \in 0..MaxSheets} :
        \A a, b \in DOMAIN names : a # b => names[a] # names[b]}

Workbooks ==
    UNION {{[SheetNames |-> names, Sheets |-> sheets] :
               sheets \in [{names[k] : k \in DOMAIN names} -> Csvs]} :
           names \in SheetNameLists}

NoWorkbook == [SheetNames |-> <<>>, Sheets |-> <<>>]

\* mutant: the content is written before its header
AppendSheet_contentFirst(full, sheetName, csv) ==
    full \o csv \o <<NL, NL, SheetHeader(sheetName), NL, NL>>

\* lines 346-349: the header between blank lines, then the sheet as csv
AppendSheet(full, sheetName, csv) ==
    full \o <<NL, NL, SheetHeader(sheetName), NL, NL>> \o csv

\* lines 344-350: workbook.SheetNames.forEach(...)
RECURSIVE ForEachSheet(_, _, _)
ForEachSheet(full, names, sheets) ==
    IF Len(names) = 0 THEN full
    ELSE ForEachSheet(AppendSheet(full, Head(names), sheets[Head(names)]),
                      Tail(names), sheets)

ExtractIdle ==
    /\ pdf = <<>>
    /\ workbook = NoWorkbook
    /\ pageNumber = 1
    /\ fullText = <<>>
    /\ xpc = "idle"

-----------------------------------------------------------------------------
(* analyzeDocument step by step                                            *)

RunIdle ==
    /\ document = NoDocument
    /\ pc = "idle"
    /\ docChunks = <<>>
    /\ splitCalls = 0
    /\ mapState = <<>>
    /\ mapText = <<>>
    /\ settled = <<>>
    /\ calls = <<>>
    /\ responseText = <<>>
    /\ result = None
    /\ error = None
    /\ caught = NotCaught

ChunkerIdle ==
    /\ text = <<>>
    /\ limit = 1
    /\ startIndex = 0
    /\ chunks = <<>>
    /\ cuts = <<>>
    /\ cpc = "returned"

Init == ChunkerIdle /\ RunIdle /\ UiIdle /\ ExtractIdle

Documents ==
    {TextDocument(c) : c \in DocTexts}
        \cup {FileDocument(x[1], x[2]) : x \in Attachments \X MimeTypes}

\* lines 56-71: an image; the request is issued and the run awaits it
AnalyzeFile ==
    /\ pc = "idle"
    /\ \E d \in Documents :
          /\ Strategy(d) = "image"
          /\ document' = d
          /\ calls' = <<ImageCall(d)>>
    /\ pc' = "awaitFinal"
    /\ UNCHANGED <<docChunks, splitCalls, mapState, mapText, settled,
                   responseText, result, error, caught>>
    /\ UNCHANGED <<chunkVars, uiVars, extractVars>>

\* lines 102-108: a text within the ceiling; one request with the whole text
AnalyzeSmallText ==
    /\ pc = "idle"
    /\ \E d \in Documents :
          /\ Strategy(d) = "single"
          /\ document' = d
          /\ calls' = <<SingleCall(d)>>
    /\ pc' = "awaitFinal"
    /\ UNCHANGED <<docChunks, splitCalls, mapState, mapText, settled,
                   responseText, result, error, caught>>
    /\ UNCHANGED <<chunkVars, uiVars, extractVars>>

\* lines 90-101 once Promise.all has settled: its rejection is caught, its
\* fulfilment issues the reduce request
Joined(state, texts, order, rejection, issued) ==
    LET all == PromiseAll(state) IN
    CASE all = "rejected" ->
            /\ pc' = "thrown"
            /\ error' = CatchMessage(rejection)
            /\ caught' = Caught(rejection, "call")
            /\ calls' = issued
      [] all = "fulfilled" ->
            /\ pc' = "awaitFinal"
            /\ error' = error
            /\ caught' = caught
            /\ calls' = Append(issued, ReduceCall(PromiseAllValues(texts, order)))
      [] OTHER ->
            /\ pc' = "awaitMap"
            /\ error' = error
            /\ caught' = caught
            /\ calls' = issued

\* lines 74-90: a text over the ceiling; it is split and one request per chunk
\* is issued, all in the same turn, then the run awaits their join
AnalyzeLargeText ==
    /\ pc = "idle"
    /\ \E d \in Documents :
          /\ Strategy(d) = "mapReduce"
          /\ document' = d
          /\ LET cs == splitTextIntoChunks(d.content, CHARACTER_LIMIT)
                 issued == MapCalls(cs)
             IN  /\ docChunks' = cs
                 /\ mapState' = [i \in 1..Len(issued) |-> "pending"]
                 /\ mapText' = [i \in 1..Len(issued) |-> <<>>]
                 /\ Joined(mapState', mapText', settled, NoRejection, issued)
    /\ splitCalls' = splitCalls + 1
    /\ UNCHANGED <<settled, responseText, result>>
    /\ UNCHANGED <<chunkVars, uiVars, extractVars>>

\* lines 84-90: the call of chunk i resolves.  A call still in flight after
\* the run has failed resolves as well; nothing awaits it any more.
MapResolves ==
    /\ \E i \in DOMAIN mapState, s \in Summaries :
          /\ mapState[i] = "pending"
          /\ mapState' = [mapState EXCEPT ![i] = "resolved"]
          /\ mapText' = [mapText EXCEPT ![i] = s]
          /\ settled' = Append(settled, i)
          /\ IF pc = "awaitMap"
             THEN Joined(mapState', mapText', settled', NoRejection, calls)
             ELSE UNCHANGED <<pc, error, caught, calls>>
    /\ UNCHANGED <<document, docChunks, splitCalls, responseText, result>>
    /\ UNCHANGED <<chunkVars, uiVars, extractVars>>

\* lines 84-90, 130-152: the call of chunk i fails
MapRejects ==
    /\ \E i \in DOMAIN mapState, e \in ApiErrors :
          /\ mapState[i] = "pending"
          /\ mapState' = [mapState EXCEPT ![i] = "rejected"]
          /\ settled' = Append(settled, i)
          /\ IF pc = "awaitMap"
             THEN Joined(mapState', mapText, settled', e, calls)
             ELSE UNCHANGED <<pc, error, caught, calls>>
    /\ UNCHANGED <<document, docChunks, splitCalls, mapText, responseText, result>>
    /\ UNCHANGED <<chunkVars, uiVars, extractVars>>

\* lines 72, 101, 109 and 113-128, 130-152: the final response arrives and is
\* parsed and validated
FinalResolves ==
    /\ pc = "awaitFinal"
    /\ \E r \in ResponseTexts :
          /\ responseText' = r
          /\ IF Validate(r).ok
             THEN /\ pc' = "returned"
                  /\ result' = Validate(r).value
                  /\ error' = error
                  /\ caught' = caught
             ELSE /\ pc' = "thrown"
                  /\ result' = result
                  /\ error' = CatchMessage(Validate(r).thrown)
                  /\ caught' = Caught(Validate(r).thrown, "response")
    /\ UNCHANGED <<document, docChunks, splitCalls, mapState, mapText, settled, calls>>
    /\ UNCHANGED <<chunkVars, uiVars, extractVars>>

\* lines 58, 97, 105 and 130-152: the final call fails
FinalRejects ==
    /\ pc = "awaitFinal"
    /\ \E e \in ApiErrors :
          /\ pc' = "thrown"
          /\ error' = CatchMessage(e)
          /\ caught' = Caught(e, "call")
    /\ UNCHANGED <<document, docChunks, splitCalls, mapState, mapText, settled,
                   calls, responseText, result>>
    /\ UNCHANGED <<chunkVars, uiVars, extractVars>>

Next ==
    \/ AnalyzeFile
    \/ AnalyzeSmallText
    \/ AnalyzeLargeText
    \/ MapResolves
    \/ MapRejects
    \/ FinalResolves
    \/ FinalRejects

Spec == Init /\ [][Next]_vars

-----------------------------------------------------------------------------
(* The chunker run step by step                                            *)

InitChunk ==
    /\ text \in Texts(MaxLen)
    /\ limit \in 1..MaxLimit
    /\ startIndex = ChunkEntry(text).startIndex
    /\ chunks = ChunkEntry(text).chunks
    /\ cuts = ChunkEntry(text).cuts
    /\ cpc = IF ChunkEntry(text).done THEN "returned" ELSE "loop"
    /\ RunIdle
    /\ UiIdle
    /\ ExtractIdle

LoopState == [startIndex |-> startIndex, chunks |-> chunks, cuts |-> cuts,
              done |-> FALSE]

ApplyIteration(st) ==
    /\ startIndex' = st.startIndex
    /\ chunks' = st.chunks
    /\ cuts' = st.cuts
    /\ cpc' = IF st.done THEN "returned" ELSE "loop"
    /\ UNCHANGED <<text, limit>>
    /\ UNCHANGED <<runVars, uiVars, extractVars>>

\* line 26 false: the loop ends because the cursor reached the end of the text
LoopExit ==
    /\ cpc = "loop"
    /\ ~(startIndex < Len(text))
    /\ ApplyIteration(ChunkIteration(text, limit, LoopState))

\* lines 28-31: the rest fits, push it and break
PushFinal ==
    /\ cpc = "loop"
    /\ startIndex < Len(text)
    /\ startIndex + limit >= Len(text)
    /\ ApplyIteration(ChunkIteration(text, limit, LoopState))

\* lines 34-42: cut a chunk and advance
PushCut ==
    /\ cpc = "loop"
    /\ startIndex < Len(text)
    /\ startIndex + limit < Len(text)
    /\ ApplyIteration(ChunkIteration(text, limit, LoopState))

NextChunk == LoopExit \/ PushFinal \/ PushCut

SpecChunk == InitChunk /\ [][NextChunk]_vars

\* The function runs on one thread with no suspension point: once called, its
\* loop keeps taking iterations until it returns.
SpecChunkFair == SpecChunk /\ WF_vars(NextChunk)

-----------------------------------------------------------------------------
(* The upload component and the App step by step                           *)

\* mutant: the upload area is disabled only while processing
isUiDisabled_processingOnly == isProcessing

\* line 503 of the upload component
isUiDisabled == isProcessing \/ passwordRequiredFile # NoFile

\* lines 457, 531: the password form is on screen
PasswordFormShown == ~isProcessing /\ file # NoFile /\ passwordRequiredFile # NoFile

\* App lines 38-53: handleFileChange(selectedFile, text)
handleFileChange(selectedFile, t) ==
    /\ file' = selectedFile
    /\ analysis' = NoAnalysis
    /\ appError' = Null
    /\ extractedText' = t
    /\ IF selectedFile # NoFile /\ IsImage(selectedFile)
       THEN /\ reading' = reading \cup {selectedFile}
            /\ fileDataUrl' = fileDataUrl
       ELSE /\ reading' = reading
            /\ fileDataUrl' = Null
    /\ UNCHANGED <<isLoading, analyzing>>

SetPasswordState(st) ==
    /\ passwordRequiredFile' = st.passwordRequiredFile
    /\ password' = st.password
    /\ passwordError' = st.passwordError

\* lines 355-359: the picker was closed without a file
SelectNothing ==
    /\ ~isUiDisabled
    /\ SetPasswordState(resetPasswordState(passwordRequiredFile))
    /\ attempts' = 0
    /\ handleFileChange(NoFile, Null)
    /\ UNCHANGED <<isProcessing, extracting>>
    /\ UNCHANGED <<chunkVars, runVars, extractVars>>

\* lines 361-375, 389-392: a file that needs no extraction is picked or
\* dropped; handleFileSelect runs to its end without suspending
SelectPassThrough ==
    /\ ~isUiDisabled
    /\ \E f \in Files :
          /\ ~NeedsExtraction(f)
          /\ handleFileChange(f, Null)
    /\ SetPasswordState(resetPasswordState(passwordRequiredFile))
    /\ attempts' = 0
    /\ isProcessing' = FALSE
    /\ UNCHANGED extracting
    /\ UNCHANGED <<chunkVars, runVars, extractVars>>

\* lines 361-371: a PDF or a workbook is picked or dropped; handleFileSelect
\* suspends on its extraction
SelectExtractable ==
    /\ ~isUiDisabled
    /\ \E f \in Files :
          /\ NeedsExtraction(f)
          /\ extracting' = extracting \cup {[file |-> f, password |-> "", via |-> "select"]}
    /\ SetPasswordState(resetPasswordState(passwordRequiredFile))
    /\ attempts' = 0
    /\ isProcessing' = TRUE
    /\ UNCHANGED appVars
    /\ UNCHANGED <<chunkVars, runVars, extractVars>>

\* lines 367-372, 389-392: the extraction of a picked file succeeds
SelectExtracted ==
    /\ \E r \in extracting :
          /\ r.via = "select"
          /\ ExtractionOf(r.file, r.password).ok
          /\ handleFileChange(r.file, ExtractionOf(r.file, r.password).text)
          /\ extracting' = extracting \ {r}
    /\ isProcessing' = FALSE
    /\ UNCHANGED <<passwordRequiredFile, password, passwordError, attempts>>
    /\ UNCHANGED <<chunkVars, runVars, extractVars>>

\* lines 376-392: the extraction of a picked file throws
SelectExtractionFailed ==
    /\ \E r \in extracting :
          /\ r.via = "select"
          /\ ~ExtractionOf(r.file, r.password).ok
          /\ passwordRequiredFile' =
                IF AsksForPassword(r.file, ExtractionOf(r.file, r.password).thrown)
                THEN r.file ELSE passwordRequiredFile
          /\ handleFileChange(r.file, Null)
          /\ extracting' = extracting \ {r}
    /\ isProcessing' = FALSE
    /\ UNCHANGED <<password, passwordError, attempts>>
    /\ UNCHANGED <<chunkVars, runVars, extractVars>>

\* line 466: the user edits the password field
TypePassword ==
    /\ PasswordFormShown
    /\ \E p \in Passwords : p # password /\ password' = p
    /\ UNCHANGED <<isProcessing, passwordRequiredFile, passwordError, extracting,
                   attempts>>
    /\ UNCHANGED appVars
    /\ UNCHANGED <<chunkVars, runVars, extractVars>>

\* lines 395-404: the password form is submitted; without a password the
\* handler returns at once
SubmitPassword ==
    /\ PasswordFormShown
    /\ IF passwordRequiredFile = NoFile \/ password = ""
       THEN UNCHANGED uploadVars
       ELSE /\ attempts < MaxAttempts
            /\ attempts' = attempts + 1
            /\ isProcessing' = TRUE
            /\ passwordError' = Null
            /\ extracting' = extracting \cup
                  {[file |-> passwordRequiredFile, password |-> password,
                    via |-> "unlock"]}
            /\ UNCHANGED <<passwordRequiredFile, password>>
    /\ UNCHANGED appVars
    /\ UNCHANGED <<chunkVars, runVars, extractVars>>

\* lines 404-406, 415-418: the password opened the PDF
Unlocked ==
    /\ \E r \in extracting :
          /\ r.via = "unlock"
          /\ ExtractionOf(r.file, r.password).ok
          /\ handleFileChange(r.file, ExtractionOf(r.file, r.password).text)
          /\ extracting' = extracting \ {r}
    /\ SetPasswordState(resetPasswordState(passwordRequiredFile))
    /\ attempts' = 0
    /\ isProcessing' = FALSE
    /\ UNCHANGED <<chunkVars, runVars, extractVars>>

\* mutant: a failed unlock leaves the processing flag set
UnlockFailed_staysBusy ==
    /\ \E r \in extracting :
          /\ r.via = "unlock"
          /\ ~ExtractionOf(r.file, r.password).ok
          /\ passwordError' = UnlockErrorMessage(ExtractionOf(r.file, r.password).thrown)
          /\ extracting' = extracting \ {r}
    /\ isProcessing' = TRUE
    /\ UNCHANGED <<passwordRequiredFile, password, attempts>>
    /\ UNCHANGED appVars
    /\ UNCHANGED <<chunkVars, runVars, extractVars>>

\* lines 407-418: the PDF did not open
UnlockFailed ==
    /\ \E r \in extracting :
          /\ r.via = "unlock"
          /\ ~ExtractionOf(r.file, r.password).ok
          /\ passwordError' = UnlockErrorMessage(ExtractionOf(r.file, r.password).thrown)
          /\ extracting' = extracting \ {r}
    /\ isProcessing' = FALSE
    /\ UNCHANGED <<passwordRequiredFile, password, attempts>>
    /\ UNCHANGED appVars
    /\ UNCHANGED <<chunkVars, runVars, extractVars>>

\* App lines 46-48: a FileReader finishes and its onload stores the data URL
ReaderLoads ==
    /\ \E f \in reading :
          /\ fileDataUrl' = f
          /\ reading' = reading \ {f}
    /\ UNCHANGED <<file, extractedText, analysis, isLoading, appError, analyzing>>
    /\ UNCHANGED uploadVars
    /\ UNCHANGED <<chunkVars, runVars, extractVars>>

\* App lines 67-82: the document handleAnalyze builds from its state
DocumentToAnalyze(t, dataUrl) ==
    IF t # Null THEN [kind |-> "text", of |-> t]
    ELSE IF dataUrl # Null THEN [kind |-> "file", of |-> dataUrl]
    ELSE [kind |-> Null, of |-> Null]

\* App line 133: the Analyze button is enabled
AnalyzeEnabled == file # NoFile /\ ~isLoading

\* mutant: handleAnalyze starts without clearing the previous analysis
AnalyzeStarts_keepsAnalysis ==
    /\ AnalyzeEnabled
    /\ DocumentToAnalyze(extractedText, fileDataUrl).kind # Null
    /\ isLoading' = TRUE
    /\ appError' = Null
    /\ analysis' = analysis
    /\ analyzing' = analyzing \cup
          {[file |-> file,
            kind |-> DocumentToAnalyze(extractedText, fileDataUrl).kind,
            of |-> DocumentToAnalyze(extractedText, fileDataUrl).of,
            locked |-> passwordRequiredFile # NoFile]}
    /\ UNCHANGED <<file, fileDataUrl, extractedText, reading>>
    /\ UNCHANGED uploadVars
    /\ UNCHANGED <<chunkVars, runVars, extractVars>>

\* App lines 55-79: Analyze is clicked with content at hand; analyzeDocument
\* issues its model calls and handleAnalyze suspends on it
AnalyzeStarts ==
    /\ AnalyzeEnabled
    /\ DocumentToAnalyze(extractedText, fileDataUrl).kind # Null
    /\ isLoading' = TRUE
    /\ appError' = Null
    /\ analysis' = NoAnalysis
    /\ analyzing' = analyzing \cup
          {[file |-> file,
            kind |-> DocumentToAnalyze(extractedText, fileDataUrl).kind,
            of |-> DocumentToAnalyze(extractedText, fileDataUrl).of,
            locked |-> passwordRequiredFile # NoFile]}
    /\ UNCHANGED <<file, fileDataUrl, extractedText, reading>>
    /\ UNCHANGED uploadVars
    /\ UNCHANGED <<chunkVars, runVars, extractVars>>

\* App lines 55-66, 80-89: Analyze is clicked without content; the handler
\* throws and catches without suspending
AnalyzeWithoutContent ==
    /\ AnalyzeEnabled
    /\ DocumentToAnalyze(extractedText, fileDataUrl).kind = Null
    /\ isLoading' = FALSE
    /\ appError' = NoContentMessage
    /\ analysis' = NoAnalysis
    /\ UNCHANGED <<file, fileDataUrl, extractedText, reading, analyzing>>
    /\ UNCHANGED uploadVars
    /\ UNCHANGED <<chunkVars, runVars, extractVars>>

\* App lines 83, 87-89: analyzeDocument resolves
AnalysisReturns ==
    /\ \E r \in analyzing :
          /\ analysis' = r
          /\ analyzing' = analyzing \ {r}
    /\ isLoading' = FALSE
    /\ UNCHANGED <<file, fileDataUrl, extractedText, appError, reading>>
    /\ UNCHANGED uploadVars
    /\ UNCHANGED <<chunkVars, runVars, extractVars>>

\* App lines 84-89: analyzeDocument rejects
AnalysisFails ==
    /\ \E r \in analyzing :
          /\ appError' = AnalysisFailedMessage
          /\ analyzing' = analyzing \ {r}
    /\ isLoading' = FALSE
    /\ UNCHANGED <<file, fileDataUrl, extractedText, analysis, reading>>
    /\ UNCHANGED uploadVars
    /\ UNCHANGED <<chunkVars, runVars, extractVars>>

InitUI == ChunkerIdle /\ RunIdle /\ UiIdle /\ ExtractIdle

NextUI ==
    \/ SelectNothing
    \/ SelectPassThrough
    \/ SelectExtractable
    \/ SelectExtracted
    \/ SelectExtractionFailed
    \/ TypePassword
    \/ SubmitPassword
    \/ Unlocked
    \/ UnlockFailed
    \/ ReaderLoads
    \/ AnalyzeStarts
    \/ AnalyzeWithoutContent
    \/ AnalysisReturns
    \/ AnalysisFails

SpecUI == InitUI /\ [][NextUI]_vars

\* lines 366, 370, 403 and App line 78: every awaited promise settles, so the
\* continuation of an extraction and of an analysis in flight is eventually run
ExtractionSettles == SelectExtracted \/ SelectExtractionFailed \/ Unlocked \/ UnlockFailed
AnalysisSettles == AnalysisReturns \/ AnalysisFails
SpecUIFair == SpecUI /\ WF_vars(ExtractionSettles) /\ WF_vars(AnalysisSettles)

-----------------------------------------------------------------------------
(* extractTextFromPdf and extractTextFromXlsx step by step                 *)

\* lines 321-323, 343: the document or the workbook has been opened
InitExtract ==
    /\ ChunkerIdle
    /\ RunIdle
    /\ UiIdle
    /\ \/ pdf \in Pdfs /\ workbook = NoWorkbook /\ xpc = "pdf"
       \/ pdf = <<>> /\ workbook \in Workbooks /\ xpc = "xlsx"
    /\ pageNumber = 1
    /\ fullText = <<>>

\* lines 323-328: one iteration of the page loop
ExtractPage ==
    /\ xpc = "pdf"
    /\ pageNumber <= Len(pdf)
    /\ fullText' = AppendPage(fullText, PageText(pdf[pageNumber]))
    /\ pageNumber' = pageNumber + 1
    /\ UNCHANGED <<pdf, workbook, xpc>>
    /\ UNCHANGED <<chunkVars, runVars, uiVars>>

\* lines 323, 329: the page loop ends and fullText is returned
ReturnPdfText ==
    /\ xpc = "pdf"
    /\ pageNumber > Len(pdf)
    /\ xpc' = "pdfReturned"
    /\ UNCHANGED <<pdf, workbook, pageNumber, fullText>>
    /\ UNCHANGED <<chunkVars, runVars, uiVars>>

\* lines 344-351: the sheets are written in one turn and fullText is returned
ReturnWorkbookText ==
    /\ xpc = "xlsx"
    /\ fullText' = ForEachSheet(fullText, workbook.SheetNames, workbook.Sheets)
    /\ xpc' = "xlsxReturned"
    /\ UNCHANGED <<pdf, workbook, pageNumber>>
    /\ UNCHANGED <<chunkVars, runVars, uiVars>>

NextExtract == ExtractPage \/ ReturnPdfText \/ ReturnWorkbookText

SpecExtract == InitExtract /\ [][NextExtract]_vars

-----------------------------------------------------------------------------
(* Claims about splitTextIntoChunks (checked under SpecChunk)              *)

Returned == cpc = "returned"
NoHardCut == \A k \in 1..Len(cuts) : cuts[k].kind # "hard"
Rejoined == Join(chunks, <<NL>>)

\* C1: whenever the chunker hard-cuts, the character at the cut position is
\* not consumed: it is the first character of the next chunk, and when every
\* cut was a hard cut the chunks together are exactly the text.
C1_HardCutKeepsCutChar ==
    Returned =>
        /\ \A k \in 1..Len(cuts) :
              cuts[k].kind = "hard" =>
                 /\ k < Len(chunks)
                 /\ cuts[k + 1].from = cuts[k].to
                 /\ Len(chunks[k + 1]) > 0
                 /\ chunks[k + 1][1] = CharAt(text, cuts[k].to)
        /\ (\A k \in 1..Len(cuts) : cuts[k].kind # "newline")
              => Join(chunks, <<>>) = text

\* C2 as stated: when every cut landed on a newline, joining the chunks with
\* one newline between consecutive chunks reproduces the text exactly, also
\* for texts that end in a newline.
C2_NewlineCutsRoundTrip ==
    (Returned /\ NoHardCut) => Rejoined = text

\* C2 as amended: when every cut landed on a newline, the join reproduces the
\* text exactly, except when the last cut landed on the text's last character
\* (a newline): no final chunk is pushed then, and the join is the text
\* without that final newline.
C2_RoundTripUpToFinalNewline ==
    (Returned /\ NoHardCut) =>
        IF Len(cuts) > 0 /\ cuts[Len(cuts)].kind = "newline"
        THEN /\ cuts[Len(cuts)].to = Len(text) - 1
             /\ Rejoined \o <<NL>> = text
        ELSE Rejoined = text

\* C2 witness: a text ending in a newline was cut at newlines only, into at
\* least two chunks, and the join reproduces it.
C2_Witness ==
    /\ Returned /\ NoHardCut
    /\ Len(chunks) >= 2
    /\ Len(text) > 0 /\ text[Len(text)] = NL
    /\ Rejoined = text

\* C3: every chunk, the last one included, has length <= limit.
C3_ChunkLengthAtMostLimit ==
    \A k \in 1..Len(chunks) : Len(chunks[k]) <= limit

\* C3 witness: a run returned several chunks, one of them of length exactly
\* limit, after a cut at a newline.
C3_Witness ==
    /\ Returned
    /\ Len(chunks) >= 2
    /\ \E k \in 1..Len(cuts) : cuts[k].kind = "newline" /\ Len(chunks[k]) = limit

\* C4: the result is the empty sequence if and only if the text is empty.
C4_EmptyIffEmptyText ==
    Returned => (Len(chunks) = 0 <=> Len(text) = 0)

\* C4 witness: a non-empty text that fits the limit returned one chunk.
C4_Witness ==
    /\ Returned
    /\ Len(text) > 0
    /\ Len(chunks) = 1
    /\ cuts[1].kind = "final"

-----------------------------------------------------------------------------
(* Claims about the calls analyzeDocument issues (checked under Spec)      *)

CallsOfKind(kind) == SelectSeq(calls, LAMBDA c : c.kind = kind)
IsSmallText == document.type = "text" /\ Len(document.content) <= CHARACTER_LIMIT
IsLargeText == document.type = "text" /\ Len(document.content) > CHARACTER_LIMIT
IsFile == document.type = "file"

\* C5: a text of length <= CHARACTER_LIMIT (the ceiling itself included) takes
\* the single-shot path: exactly one model call is issued in the run, its
\* contents are the prompt followed by the whole text, and the chunker is not
\* called.
C5_SmallTextSingleCall ==
    IsSmallText =>
        /\ Len(calls) = 1
        /\ calls[1].kind = "single"
        /\ calls[1].contents =
              <<[tag |-> "prompt", body |-> <<>>],
                [tag |-> "contentHeader", body |-> <<>>],
                [tag |-> "text", body |-> document.content]>>
        /\ splitCalls = 0

\* C5 witness: a run on a text of length exactly CHARACTER_LIMIT returned an
\* analysis after its one call.
C5_Witness ==
    /\ pc = "returned"
    /\ document.type = "text"
    /\ Len(document.content) = CHARACTER_LIMIT
    /\ Len(calls) = 1

\* C6: a text longer than CHARACTER_LIMIT takes the map-reduce path, and the
\* map calls issued are exactly one per chunk of
\* splitTextIntoChunks(content, CHARACTER_LIMIT), in chunk order, none skipped
\* and none duplicated.
C6_OneMapCallPerChunk ==
    IsLargeText =>
        LET cs == splitTextIntoChunks(document.content, CHARACTER_LIMIT)
            maps == CallsOfKind("map")
        IN  /\ splitCalls = 1
            /\ Len(maps) = Len(cs)
            /\ \A i \in 1..Len(cs) :
                  maps[i].contents = <<[tag |-> "mapPrompt", body |-> <<>>],
                                       [tag |-> "text", body |-> cs[i]]>>
            /\ Len(CallsOfKind("single")) = 0
            /\ Len(CallsOfKind("image")) = 0

\* C6 witness: a map-reduce run over three chunks, one of them empty, issued
\* its map calls and returned.
C6_Witness ==
    /\ pc = "returned"
    /\ IsLargeText
    /\ Len(docChunks) = 3
    /\ \E i \in 1..3 : Len(docChunks[i]) = 0
    /\ Len(CallsOfKind("map")) = 3

\* C7: the reduce call is issued at most once per run, and only when every map
\* call of the run has resolved successfully: never while a map call is still
\* outstanding.
C7_ReduceAfterAllMaps ==
    /\ Len(CallsOfKind("reduce")) <= 1
    /\ Len(CallsOfKind("reduce")) = 1 =>
          /\ Len(mapState) = Len(CallsOfKind("map"))
          /\ Len(mapState) >= 1
          /\ \A i \in DOMAIN mapState : mapState[i] = "resolved"

\* C7 witness: the reduce call was issued after three map calls resolved in an
\* order other than the chunk order.
C7_Witness ==
    /\ Len(CallsOfKind("reduce")) = 1
    /\ Len(mapState) = 3
    /\ settled # <<1, 2, 3>>

\* C8: if any map call fails, the reduce call is never issued in that run and
\* analyzeDocument fails without returning an Analysis.
C8_MapFailureFailsRun ==
    (\E i \in DOMAIN mapState : mapState[i] = "rejected") =>
        /\ pc = "thrown"
        /\ error # None
        /\ result = None
        /\ Len(CallsOfKind("reduce")) = 0

\* C8 witness: one map call failed, its siblings resolved (before or after
\* it), and the run has failed.
C8_Witness ==
    /\ Len(mapState) = 3
    /\ Cardinality({i \in DOMAIN mapState : mapState[i] = "rejected"}) = 1
    /\ Cardinality({i \in DOMAIN mapState : mapState[i] = "resolved"}) = 2
    /\ pc = "thrown"

\* C9: whatever the order the map calls complete in, the reduce call carries
\* the partial summaries in chunk-index order, the summary of chunk i before
\* that of chunk i+1, with the divider between consecutive summaries.
C9_SummariesInChunkOrder ==
    \A k \in 1..Len(calls) :
        calls[k].kind = "reduce" =>
            LET n == Len(docChunks)
                combined == [j \in 1..(2 * n - 1) |->
                               IF j % 2 = 1
                               THEN [tag |-> "summary", body |-> mapText[(j + 1) \div 2]]
                               ELSE [tag |-> "divider", body |-> <<>>]]
            IN  calls[k].contents =
                   <<[tag |-> "prompt", body |-> <<>>],
                     [tag |-> "reduceInstruction", body |-> <<>>]>> \o combined

\* C9 witness: the map calls completed in reverse chunk order with summaries
\* that differ, and the reduce call was issued.
C9_Witness ==
    /\ Len(CallsOfKind("reduce")) = 1
    /\ settled = <<3, 2, 1>>
    /\ mapText[1] # mapText[2]
    /\ mapText[2] # mapText[3]

\* C10: an image (file) document is analyzed with exactly one model call,
\* which carries the prompt and the attachment with its media type; the
\* chunker is not called and no map or reduce call is issued, whatever the
\* size of the attachment.
C10_FileSingleCall ==
    IsFile =>
        /\ Len(calls) = 1
        /\ calls[1].kind = "image"
        /\ calls[1].contents =
              <<[tag |-> "prompt", body |-> <<>>],
                [tag |-> "inlineData", body |-> document.base64Data]>>
        /\ calls[1].mimeType = document.mimeType
        /\ splitCalls = 0

\* C10 witness: a run on an attachment longer than CHARACTER_LIMIT returned
\* an analysis after its one call.
C10_Witness ==
    /\ pc = "returned"
    /\ IsFile
    /\ Len(document.base64Data) > CHARACTER_LIMIT
    /\ Len(calls) = 1

-----------------------------------------------------------------------------
(* Claims about the validation of the final response (checked under Spec)  *)

\* The final response has arrived (every response text holds a token)
Responded == Len(responseText) > 0
\* The JSON texts that conform to the Analysis schema
ConformantBodies == {"J_full", "J_emptyArrays"}
TaggedFence(b) == <<"<fence>", "json", NL, b, NL, "<fence>">>
TaggedFenceInWhitespace(b) == <<" ", "<fence>", "json", NL, b, NL, "<fence>", NL>>
BareFence(b) == <<"<fence>", NL, b, NL, "<fence>">>
\* The response without whitespace and fence tokens: the embedded text
Embedded == SelectSeq(responseText, LAMBDA x : x \notin {" ", NL, "<fence>", "json"})

\* C11: on every path analyzeDocument returns an Analysis only after the
\* final response passed validation, and every returned Analysis has the four
\* leaf fields with correct shapes: summary a non-empty string,
\* criticalFindings, costs and risks sequences.
C11_ReturnedAnalysisHasShape ==
    pc = "returned" =>
        /\ Responded
        /\ result = Embedded[1]
        /\ Property(result).type = "object"
        /\ Property(result).summary = "text"
        /\ Property(result).criticalFindings \in {"array", "emptyArray"}
        /\ Property(result).costAndRiskAnalysis = "object"
        /\ Property(result).costs \in {"array", "emptyArray"}
        /\ Property(result).risks \in {"array", "emptyArray"}

\* C12: a response that parses as JSON but whose value fails a shape check,
\* whatever JSON value it is, fails with the structural-shape error, which is
\* not the error of a response that does not parse.
C12_ShapeFailureIsStructuralError ==
    (/\ Responded
     /\ responseText = Embedded
     /\ Embedded[1] \in JsonBodies \ ConformantBodies
     /\ Embedded[1] # "J_summaryNumber")
        => /\ pc = "thrown"
           /\ error = "Invalid JSON structure received from API. Please try again."
           /\ error # ParseFailedMessage

\* C13: the fence wrapper is stripped with and without a language tag: a
\* conformant JSON text in a json-tagged fence and the same text in an
\* untagged fence both validate to that JSON value.
C13_FenceStrippedWithOrWithoutTag ==
    \A b \in ConformantBodies :
        responseText \in {TaggedFence(b), BareFence(b)}
            => pc = "returned" /\ result = b

\* C14: a conformant JSON text in a json-tagged fence, with or without
\* whitespace around the fence, and the same text without a fence validate,
\* and the Analysis returned is the embedded JSON value.
C14_TaggedFenceOrPlainValidates ==
    \A b \in ConformantBodies :
        responseText \in {TaggedFence(b), TaggedFenceInWhitespace(b), <<b>>}
            => pc = "returned" /\ result = b

\* C14 witness: a fenced response surrounded by whitespace was validated.
C14_Witness ==
    /\ responseText = TaggedFenceInWhitespace("J_full")
    /\ pc = "returned"

\* C15: a response with a non-empty summary whose criticalFindings, costs and
\* risks are all empty sequences validates.
C15_EmptySequencesValidate ==
    (Responded /\ Embedded = <<"J_emptyArrays">>
        /\ responseText \in {<<"J_emptyArrays">>, TaggedFence("J_emptyArrays")})
            => pc = "returned" /\ Property(result).criticalFindings = "emptyArray"
                               /\ Property(result).costs = "emptyArray"
                               /\ Property(result).risks = "emptyArray"

\* C15 witness: the reduce call of a map-reduce run was answered with empty
\* sequences and the run returned.
C15_Witness ==
    /\ responseText = <<"J_emptyArrays">>
    /\ pc = "returned"
    /\ Len(CallsOfKind("reduce")) = 1

-----------------------------------------------------------------------------
(* Claims about the extraction state machine and the Analyze button        *)

\* a PDF whose extraction without a password throws PasswordException
Encrypted(f) ==
    /\ FileType(f) = PDF
    /\ extractTextFromPdf(f, "").thrown = PasswordException

\* the extraction r is in flight now and settles in this step
Settles(r) == r \in extracting /\ r \notin extracting'

\* the guards of handlePasswordSubmit and of the form that calls it
SubmitAccepted == PasswordFormShown /\ password # ""

\* the runs handleAnalyze has started: in flight, or returned and on display
Runs == analyzing \cup (IF analysis = NoAnalysis THEN {} ELSE {analysis})

\* C16: selecting an encrypted PDF without a password goes through
\* Processing, and when its extraction settles passwordRequiredFile is that
\* file, the selection is neither processing nor ready, and no extracted text
\* is delivered to the App for it.
C16_EncryptedPdfAsksForPassword ==
    [][\A r \in extracting :
          (r.via = "select" /\ Encrypted(r.file) /\ Settles(r))
              => /\ isProcessing
                 /\ ~isProcessing'
                 /\ passwordRequiredFile' = r.file
                 /\ file' = r.file
                 /\ extractedText' = Null
                 /\ passwordError' = Null]_vars

\* C16 witness: an encrypted PDF was selected, its extraction settled, and
\* the password form is waiting for a first submission.
C16_Witness ==
    /\ passwordRequiredFile = "locked.pdf"
    /\ file = "locked.pdf"
    /\ extractedText = Null
    /\ attempts = 0
    /\ ~isProcessing

\* C17: when a password submission fails on an incorrect password, the file
\* still asks for a password, the incorrect-password error is attached, and a
\* further submission is accepted, however many submissions came before.
C17_WrongPasswordStaysRetryable ==
    [][\A r \in extracting :
          (r.via = "unlock" /\ Settles(r)
              /\ ExtractionOf(r.file, r.password).thrown = PasswordException)
              => /\ passwordRequiredFile' = r.file
                 /\ passwordError' = IncorrectPasswordMessage
                 /\ extractedText' = Null
                 /\ SubmitAccepted']_vars

\* C17 witness: after several consecutive incorrect submissions the file
\* still asks for a password and carries the incorrect-password error.
C17_Witness ==
    /\ attempts >= 2
    /\ passwordRequiredFile = "locked.pdf"
    /\ passwordError = IncorrectPasswordMessage
    /\ SubmitAccepted

\* C18: when a password submission opens the PDF, the extracted text of that
\* file is delivered to the App, and passwordRequiredFile, password and
\* passwordError are cleared.
C18_CorrectPasswordDeliversText ==
    [][\A r \in extracting :
          (r.via = "unlock" /\ Settles(r) /\ ExtractionOf(r.file, r.password).ok)
              => /\ passwordRequiredFile = r.file
                 /\ file' = r.file
                 /\ extractedText' = ExtractionOf(r.file, r.password).text
                 /\ passwordRequiredFile' = NoFile
                 /\ password' = ""
                 /\ passwordError' = Null
                 /\ ~isProcessing']_vars

\* C18 witness: the text of the encrypted PDF reached the App and no password
\* is asked for any more.
C18_Witness ==
    /\ file = "locked.pdf"
    /\ extractedText = "locked.pdf"
    /\ passwordRequiredFile = NoFile
    /\ password = ""
    /\ ~isProcessing

\* C19: when a password submission fails on a structurally corrupt PDF or on
\* an unsupported encryption, the failure is not reported as an incorrect
\* password, the file no longer asks for a password, and no further
\* submission is accepted.
C19_CorruptOrUnsupportedIsTerminal ==
    [][\A r \in extracting :
          (r.via = "unlock" /\ Settles(r)
              /\ ExtractionOf(r.file, r.password).thrown
                    \in {InvalidPDFException, UnsupportedEncryption})
              => /\ passwordError' # IncorrectPasswordMessage
                 /\ passwordRequiredFile' = NoFile
                 /\ ~SubmitAccepted']_vars

\* C20: every run started by Analyze, in flight or returned, was started
\* while no password was asked for, and on content that came from the file
\* selected at that moment.
C20_RunsOnlyOnResolvedDocument ==
    \A r \in Runs : r.of = r.file /\ ~r.locked

-----------------------------------------------------------------------------
(* Claims about file selection and the content handed to Analyze           *)

\* a file that is neither an image, a PDF nor a workbook
Unrecognized(f) == f # NoFile /\ ~IsImage(f) /\ ~NeedsExtraction(f)

\* C21: whenever no extraction is processing (nothing selected, a file ready,
\* a file that failed, or a file asking for its password), a new file can be
\* selected, both one that needs extraction and one that does not.
C21_SelectionPossibleFromEveryState ==
    ~isProcessing => (ENABLED SelectPassThrough) /\ (ENABLED SelectExtractable)

\* C22: when Analyze is clicked with an unrecognized file selected, a model
\* call is issued that carries that file's bytes as attachment, and no error
\* for lack of content is raised.
C22_UnrecognizedFileIsAnalyzedAsBinary ==
    [][(Unrecognized(file) /\ (AnalyzeStarts \/ AnalyzeWithoutContent))
          => /\ appError' # NoContentMessage
             /\ \E r \in analyzing' :
                   r \notin analyzing /\ r.file = file /\ r.kind = "file"
                                      /\ r.of = file]_vars

\* C26: at most one extraction is in flight, at most one analysis run is in
\* flight, and an extraction and an analysis run are never in flight
\* together.
C26_OneRunAtATime ==
    /\ Cardinality(extracting) <= 1
    /\ Cardinality(analyzing) <= 1
    /\ ~(extracting # {} /\ analyzing # {})

-----------------------------------------------------------------------------
(* Claims about the failures of analyzeDocument                            *)

\* the failures with which the capability reports that the token count
\* exceeds its budget
TokenOverflowReports == {
    [name |-> "ApiError", isObject |-> TRUE,
     apiMessage |-> "The input token count exceeds the maximum",
     message |-> "got status: 400"],
    [name |-> "ApiError", isObject |-> TRUE, apiMessage |-> NoMessage,
     message |-> "The input token count (9) exceeds the maximum number of tokens allowed (8)"] }

\* the message the thrown value provides: error.error.message, else
\* error.message, else none
OwnMessage(e) ==
    IF e.apiMessage # NoMessage THEN e.apiMessage ELSE e.message

RunFailed == pc = "thrown"
MapCallFailed == \E i \in DOMAIN mapState : mapState[i] = "rejected"
MapFailsNow(i) == mapState[i] = "pending" /\ mapState'[i] = "rejected"

\* C24: a run that fails ends with a terminal error and no Analysis; once it
\* has failed its error never changes and it issues no further call; and a
\* run one of whose map calls failed never issues the reduce call that would
\* carry the partial summaries of its siblings.
C24_OneTerminalErrorNoPartialResult ==
    [][/\ pc' = "thrown" => error' # None /\ result' = None
       /\ pc = "thrown" => pc' = "thrown" /\ error' = error /\ calls' = calls
       /\ (\E i \in DOMAIN mapState' : mapState'[i] = "rejected")
             => Len(SelectSeq(calls', LAMBDA c : c.kind = "reduce")) = 0]_vars

\* C24 witness: a map-reduce run failed on one map call while another map
\* call had resolved with a summary before it and a third resolved after it.
C24_Witness ==
    /\ RunFailed
    /\ Len(settled) = 3
    /\ mapState[settled[1]] = "resolved" /\ mapText[settled[1]] # <<>>
    /\ mapState[settled[2]] = "rejected"
    /\ mapState[settled[3]] = "resolved" /\ mapText[settled[3]] # <<>>
    /\ result = None
    /\ error # None

\* C25: a run that failed on a model call reporting that the token count
\* exceeds the budget carries the document-too-large message and returns no
\* Analysis.
C25_TokenOverflowIsTooLarge ==
    (RunFailed /\ caught.stage = "call" /\ caught.thrown \in TokenOverflowReports)
        => error = TooLargeMessage /\ result = None

\* C27: a map call that fails while the run awaits the join fails the run in
\* that very step, whatever its siblings' state, and leaves the siblings as
\* they are; after the failure, the siblings' later outcomes change neither
\* the error nor the calls issued.
C27_FirstMapFailureFailsAtOnce ==
    [][/\ \A i \in DOMAIN mapState :
             (pc = "awaitMap" /\ MapFailsNow(i))
                 => /\ pc' = "thrown"
                    /\ error' # None
                    /\ \A j \in DOMAIN mapState \ {i} : mapState'[j] = mapState[j]
       /\ (RunFailed /\ MapCallFailed)
             => /\ pc' = "thrown"
                /\ error' = error
                /\ caught' = caught
                /\ calls' = calls]_vars

\* C27 witness: the run failed on its first map call to settle, and later one
\* sibling resolved and another failed.
C27_Witness ==
    /\ RunFailed
    /\ Len(settled) = 3
    /\ mapState[settled[1]] = "rejected"
    /\ {mapState[settled[2]], mapState[settled[3]]} = {"resolved", "rejected"}
    /\ Len(CallsOfKind("reduce")) = 0

\* C28: once a map call has resolved with an empty response, the run issues
\* no reduce call and does not go on to its final phase.
C28_EmptyMapResponseFailsRun ==
    (\E i \in DOMAIN mapState : mapState[i] = "resolved" /\ mapText[i] = <<>>)
        => /\ Len(CallsOfKind("reduce")) = 0
           /\ pc \notin {"awaitFinal", "returned"}

\* C30: a run that failed on a model call for a reason other than size
\* carries the message the thrown value provides, or the generic fallback
\* when it provides none, and never the parse-failure or invalid-structure
\* message.
C30_CallFailureCarriesOwnMessage ==
    (RunFailed /\ caught.stage = "call" /\ caught.thrown \notin TokenOverflowReports)
        => /\ error = IF OwnMessage(caught.thrown) # NoMessage
                      THEN OwnMessage(caught.thrown) ELSE UnknownErrorMessage
           /\ error \notin {ParseFailedMessage,
                            "Invalid JSON structure received from API. Please try again."}

-----------------------------------------------------------------------------
(* Claims about the extracted text                                         *)

Occurrences(t, line) == Cardinality({i \in DOMAIN t : t[i] = line})
IndexOf(t, line) == CHOOSE i \in DOMAIN t : t[i] = line

\* where the header of the k-th sheet stands in fullText, and that sheet's
\* serialized content
HeaderAt(k) == IndexOf(fullText, SheetHeader(workbook.SheetNames[k]))
ContentOf(k) == workbook.Sheets[workbook.SheetNames[k]]

\* each header once, the headers in SheetNames order, each followed (after
\* its blank line) by its sheet's content before the next header
OneSectionPerSheetInOrder ==
    LET names == workbook.SheetNames IN
    /\ \A k \in DOMAIN names :
          Occurrences(fullText, SheetHeader(names[k])) = 1
    /\ \A k \in DOMAIN names :
          /\ HeaderAt(k) + 2 + Len(ContentOf(k)) <= Len(fullText)
          /\ SubSeq(fullText, HeaderAt(k) + 3, HeaderAt(k) + 2 + Len(ContentOf(k)))
                = ContentOf(k)
          /\ k < Len(names) => HeaderAt(k) + 2 + Len(ContentOf(k)) < HeaderAt(k + 1)

\* the sections of the sheets names[1..], one after the other
RECURSIVE Sections(_)
Sections(names) ==
    IF Len(names) = 0 THEN <<>>
    ELSE <<NL, NL, SheetHeader(Head(names)), NL, NL>>
            \o workbook.Sheets[Head(names)] \o Sections(Tail(names))

\* no sheet's content holds a line that reads as the header of a sheet of the
\* workbook
NoHeaderInContent ==
    \A k, j \in DOMAIN workbook.SheetNames :
        Occurrences(ContentOf(k), SheetHeader(workbook.SheetNames[j])) = 0

\* C23 as stated: for every workbook, each sheet's header appears exactly
\* once in the extracted text, the headers stand in SheetNames order, and each
\* is followed by its sheet's content before the next header.
C23_OneSectionPerSheet ==
    xpc = "xlsxReturned" => OneSectionPerSheetInOrder

\* C23 amended: for every workbook, the extracted text is the sheets' sections
\* in SheetNames order, each the header between blank lines followed by the
\* sheet's content; and when no content holds a line that reads as a header of
\* the workbook, each header appears exactly once, in SheetNames order, followed
\* by its sheet's content before the next header.
C23_SectionsInSheetOrder ==
    xpc = "xlsxReturned" =>
        /\ fullText = Sections(workbook.SheetNames)
        /\ NoHeaderInContent => OneSectionPerSheetInOrder

\* C23 witness: a two-sheet workbook whose declared order is not the
\* alphabetical one, both sheets with content, was extracted.
C23_Witness ==
    /\ xpc = "xlsxReturned"
    /\ workbook.SheetNames = <<"S2", "S1">>
    /\ workbook.Sheets["S2"] = <<"r", "r">>
    /\ workbook.Sheets["S1"] = <<"r">>

\* C29: the text extracted from a PDF is its pages' texts, each the page's
\* items joined by single spaces, joined by the blank-line delimiter.
C29_PageTextsJoinedByDelimiter ==
    xpc = "pdfReturned" =>
        fullText = Join([k \in DOMAIN pdf |-> Join(pdf[k], <<" ">>)], <<NL, NL>>)

-----------------------------------------------------------------------------
(* Claims about termination of splitTextIntoChunks                         *)

\* C31: for every text and every limit >= 1 splitTextIntoChunks returns; each
\* loop iteration that cuts a chunk moves the cursor strictly forward, also
\* when a newline sits exactly at the cursor; and the number of chunks never
\* exceeds the length of the text.
C31_TerminatesWithAdvancingCursor ==
    /\ <>(cpc = "returned")
    /\ [][(cpc = "loop" /\ cpc' = "loop") => startIndex' > startIndex]_vars
    /\ [](Len(chunks) <= Len(text))

\* C31 witness: a run returned after an iteration that found a newline
\* exactly at the cursor and pushed an empty chunk for it.
C31_Witness ==
    /\ cpc = "returned"
    /\ \E k \in DOMAIN cuts :
          /\ cuts[k].kind = "newline"
          /\ cuts[k].from = cuts[k].to
          /\ CharAt(text, cuts[k].from) = NL
          /\ chunks[k] = <<>>

-----------------------------------------------------------------------------
(* Claims about what the App holds and shows                               *)

\* C32: a data URL held by the App is that of the selected file, and every
\* run that sends an attachment sends the bytes of the file that was selected
\* when it started, whose media type it sends them under.
C32_DataUrlIsOfSelectedFile ==
    /\ fileDataUrl # Null => fileDataUrl = file
    /\ \A r \in Runs : r.kind = "file" => r.of = r.file

\* C33: an analysis on display was computed for the file now selected.
C33_AnalysisIsOfSelectedFile ==
    analysis # NoAnalysis => analysis.file = file

\* the analysis run r is in flight now and settles in this step
RunSettles(r) == r \in analyzing /\ r \notin analyzing'

\* C34: analysis and error are never both set; while a run started by Analyze
\* is in flight both are cleared; and the step in which a run settles sets
\* exactly one of them.
C34_AnalysisXorError ==
    [][/\ ~(analysis # NoAnalysis /\ appError # Null)
       /\ isLoading => analysis = NoAnalysis /\ appError = Null
       /\ \A r \in analyzing :
             RunSettles(r)
                 => /\ (analysis' # NoAnalysis) # (appError' # Null)
                    /\ analysis' # NoAnalysis => analysis' = r]_vars

\* C34 witness: a run on the extracted text of a document has failed and left
\* its error, and no analysis, with the loading flag cleared.
C34_Witness ==
    /\ appError = AnalysisFailedMessage
    /\ analysis = NoAnalysis
    /\ ~isLoading
    /\ file = "plain.pdf"
    /\ extractedText = "plain.pdf"

UnlockSucceeds(r) ==
    /\ Settles(r)
    /\ r.via = "unlock"
    /\ ExtractionOf(r.file, r.password).ok

\* C36: while a password is asked for, no selection event changes the file or
\* starts an extraction, submitting an empty password changes nothing, and
\* the state is left only by an unlock attempt that opened the PDF.
C36_PasswordRequiredLeftOnlyByUnlock ==
    [][passwordRequiredFile # NoFile
          => /\ file' = file
             /\ \A r \in extracting' \ extracting :
                   r.via = "unlock" /\ r.file = passwordRequiredFile /\ password # ""
             /\ password = ""
                   => UNCHANGED <<isProcessing, passwordRequiredFile, passwordError,
                                  extracting, attempts>>
             /\ passwordRequiredFile' # passwordRequiredFile
                   => /\ passwordRequiredFile' = NoFile
                      /\ \E r \in extracting :
                            /\ UnlockSucceeds(r)
                            /\ r.file = passwordRequiredFile
                            /\ extractedText' = ExtractionOf(r.file, r.password).text]_vars

\* C36 witness: a password is still asked for after an unlock attempt failed,
\* with the password field emptied and nothing in flight.
C36_Witness ==
    /\ passwordRequiredFile # NoFile
    /\ passwordError # Null
    /\ attempts >= 1
    /\ password = ""
    /\ extracting = {}

====
